---- MODULE Spec2Model ----
(***************************************************************************)
(* A model of backtrack.hpp: Expression objects (Atom<T>, Fact, Rule) on   *)
(* a heap, the Database that names them, and the unification calls the     *)
(* host can make on them.                                                  *)
(*                                                                         *)
(* An object is a heap cell; its identity (the C++ pointer) is its address *)
(* in heap.  typeid is the cell's kind.  Every call is one atomic action:  *)
(* the library is single-threaded and a call runs to completion.  The code *)
(* does not decide where operator new puts an object, so the model picks   *)
(* the lowest free address of a range kept for the allocating call site.   *)
(***************************************************************************)
EXTENDS Integers, Sequences, FiniteSets, TLC

\* ---------------------------------------------------------------- bounds
MaxHostAtoms == 2    \* Atom objects the host allocates itself
MaxDbAtoms   == 2    \* Atom objects the Database allocates (add_atom, add_arg)
MaxExprs     == 2    \* Fact and Rule objects ever allocated
MaxArity     == 2    \* longest parts / formal-argument / call-argument list
MaxPreds     == 1    \* longest predicate list of a Rule
UnifyMaxExprs     == 1   \* Facts in the runs of SpecUnify
QueryMaxHostAtoms == 1   \* host Atoms in the runs of SpecQuery
RuleMaxHostAtoms  == 1   \* host Atoms in the runs of SpecRule
RuleMaxDbAtoms    == 1   \* Database Atoms in the runs of SpecRule
RuleMaxRules      == 1   \* Rules in the runs of SpecRule

Types  == {"A", "B"}             \* the value types the Database is used with
ValuesOf(U) == IF U = "A" THEN {0, 1} ELSE {0}   \* the values of value type U
Names  == {"p", "q"}             \* the relation names (type T of Database<T>)
Null   == 0                      \* nullptr: no heap cell has address 0

\* where operator new places the objects of each call site
HostAtomAddrs == 1..MaxHostAtoms                            \* the host's new Atom<U>
DbAtomAddrs   == (MaxHostAtoms + 1)..(MaxHostAtoms + MaxDbAtoms)      \* add_atom, add_arg
ExprAddrs     == (MaxHostAtoms + MaxDbAtoms + 1)..(MaxHostAtoms + MaxDbAtoms + MaxExprs)

VARIABLES
    heap,           \* every Expression object allocated so far
    m_expressions,  \* Database::m_expressions: name -> list of Expression*
    m_atoms,        \* Database::m_atoms: the Atoms the Database allocated
    crashed,        \* the process was ended by undefined behaviour
    last            \* the last operation of the host, what it passed and got

vars == <<heap, m_expressions, m_atoms, crashed, last>>

\* ------------------------------------------------------------ the objects
AtomKind(U) == IF U = "A" THEN "Atom<A>" ELSE "Atom<B>"
AtomKinds   == {AtomKind(U) : U \in Types}

\* explicit Atom(T value) : m_value(value), m_is_unified(true)
AtomOfValue(U, value) ==
    [kind |-> AtomKind(U), m_value |-> value, m_is_unified |-> TRUE,
     m_parts |-> <<>>, m_args |-> <<>>, m_predicates |-> <<>>]

\* explicit Atom() : m_is_unified(false); m_value is left uninitialized, so
\* it holds whatever value g of T the build leaves there
AtomDefault(U, g) ==
    [kind |-> AtomKind(U), m_value |-> g, m_is_unified |-> FALSE,
     m_parts |-> <<>>, m_args |-> <<>>, m_predicates |-> <<>>]

\* explicit Fact(std::vector<Expression*> parts) : m_parts(parts)
FactOf(parts) ==
    [kind |-> "Fact", m_value |-> 0, m_is_unified |-> TRUE,
     m_parts |-> parts, m_args |-> <<>>, m_predicates |-> <<>>]

\* explicit Rule(std::vector<Expression*> args) : m_args(args)
RuleOf(args) ==
    [kind |-> "Rule", m_value |-> 0, m_is_unified |-> TRUE,
     m_parts |-> <<>>, m_args |-> args, m_predicates |-> <<>>]

\* operator new: an address of the range that holds no object yet
NewAddr(h, range) ==
    CHOOSE a \in range \ DOMAIN h : \A b \in range \ DOMAIN h : a <= b

\* the heap after an object was constructed at address a
Construct(h, a, cell) == [b \in DOMAIN h \cup {a} |-> IF b = a THEN cell ELSE h[b]]

IsAtom(h, e) == h[e].kind \in AtomKinds
Atoms(h)     == {e \in DOMAIN h : IsAtom(h, e)}
Exprs(h)     == {e \in DOMAIN h : ~IsAtom(h, e)}
Range(s)     == {s[i] : i \in DOMAIN s}

\* virtual bool is_unified() const: Atom reads its flag, Fact and Rule say true
is_unified(h, e) == IF IsAtom(h, e) THEN h[e].m_is_unified ELSE TRUE

\* virtual void set_unified(bool val): Atom writes its flag, Fact and Rule ignore it
set_unified(h, e, val) ==
    IF IsAtom(h, e) THEN [h EXCEPT ![e].m_is_unified = val] ELSE h

\* T value() const
value(h, e) == h[e].m_value

\* virtual std::size_t arity() const
arity(h, e) ==
    CASE h[e].kind = "Fact" -> Len(h[e].m_parts)
      [] h[e].kind = "Rule" -> Len(h[e].m_args)
      [] OTHER              -> 1

\* ------------------------------------------------------------ unification
RECURSIVE CollectUnunified(_, _, _)
CollectUnunified(h, args, i) ==
    IF i > Len(args) THEN <<>>
    ELSE (IF ~is_unified(h, args[i]) THEN <<i>> ELSE <<>>)
         \o CollectUnunified(h, args, i + 1)

\* a record of positions that holds none
NoPositions(h, args) == <<>>

\* the positions of args whose Expression is not unified, in order
ununified_positions(h, args) == CollectUnunified(h, args, 1)

Outcome(ret, h) == [ret |-> ret, crash |-> FALSE, heap |-> h]

\* a restore that leaves every flag as the failed attempt set it
RestoreNothing(h, positions, args) == h

RECURSIVE RestoreFrom(_, _, _, _)
RestoreFrom(h, positions, args, k) ==
    IF k > Len(positions) THEN h
    ELSE RestoreFrom(set_unified(h, args[positions[k]], FALSE), positions, args, k + 1)

\* args[pos]->set_unified(false) for every recorded position
restore_ununified(h, positions, args) == RestoreFrom(h, positions, args, 1)

\* an Atom call that sets the flag of an ununified argument and forgets the value
AtomCallNoStore(h, self, args, ub) ==
    IF Len(args) = 0
    THEN [ret |-> FALSE, crash |-> (ub = "crash"), heap |-> h]
    ELSE IF Len(args) # 1 \/ h[args[1]].kind # h[self].kind
    THEN Outcome(FALSE, h)
    ELSE IF ~h[args[1]].m_is_unified
    THEN Outcome(TRUE, set_unified(h, args[1], TRUE))
    ELSE Outcome(h[args[1]].m_value = h[self].m_value, h)

\* an Atom call that takes every argument of its type for ununified
AtomCallOverwrite(h, self, args, ub) ==
    IF Len(args) = 0
    THEN [ret |-> FALSE, crash |-> (ub = "crash"), heap |-> h]
    ELSE IF Len(args) # 1 \/ h[args[1]].kind # h[self].kind
    THEN Outcome(FALSE, h)
    ELSE Outcome(TRUE, set_unified([h EXCEPT ![args[1]].m_value = h[self].m_value],
                                   args[1], TRUE))

\* an Atom call that takes over the value of a unified argument it does not
\* hold, and fails
AtomCallLearns(h, self, args, ub) ==
    IF Len(args) = 0
    THEN [ret |-> FALSE, crash |-> (ub = "crash"), heap |-> h]
    ELSE IF Len(args) # 1 \/ h[args[1]].kind # h[self].kind
    THEN Outcome(FALSE, h)
    ELSE IF ~h[args[1]].m_is_unified
    THEN Outcome(TRUE, set_unified([h EXCEPT ![args[1]].m_value = h[self].m_value],
                                   args[1], TRUE))
    ELSE IF h[args[1]].m_value = h[self].m_value
    THEN Outcome(TRUE, h)
    ELSE Outcome(FALSE, [h EXCEPT ![self].m_value = h[args[1]].m_value])

\* an Atom call that marks the called Atom unified when it unifies its argument
AtomCallMarksSelf(h, self, args, ub) ==
    IF Len(args) = 0
    THEN [ret |-> FALSE, crash |-> (ub = "crash"), heap |-> h]
    ELSE IF Len(args) # 1 \/ h[args[1]].kind # h[self].kind
    THEN Outcome(FALSE, h)
    ELSE IF ~h[args[1]].m_is_unified
    THEN Outcome(TRUE, set_unified(
                          set_unified([h EXCEPT ![args[1]].m_value = h[self].m_value],
                                      args[1], TRUE),
                          self, TRUE))
    ELSE Outcome(h[args[1]].m_value = h[self].m_value, h)

\* Atom<T>::operator()(args).  *args[0] is evaluated before args.size() is
\* looked at: with an empty vector that is an out-of-bounds read, after which
\* the build either faults (ub = "crash") or goes on to the size test and
\* returns false (ub = "false").
AtomCall(h, self, args, ub) ==
    IF Len(args) = 0
    THEN [ret |-> FALSE, crash |-> (ub = "crash"), heap |-> h]
    ELSE IF Len(args) # 1 \/ h[args[1]].kind # h[self].kind
    THEN Outcome(FALSE, h)
    ELSE LET arg == args[1] IN
         IF ~h[arg].m_is_unified
         THEN Outcome(TRUE, set_unified([h EXCEPT ![arg].m_value = h[self].m_value],
                                        arg, TRUE))
         ELSE Outcome(h[arg].m_value = h[self].m_value, h)

\* a Rule call that marks the Atoms among its arguments unified and then fails
RuleCallLeaky(h, self, args) ==
    IF Len(args) # Len(h[self].m_args)
    THEN Outcome(FALSE, h)
    ELSE Outcome(FALSE, [a \in DOMAIN h |->
                            IF a \in Range(args) /\ IsAtom(h, a)
                            THEN [h[a] EXCEPT !.m_is_unified = TRUE] ELSE h[a]])

\* Rule::operator()(args): false on an arity mismatch, and false otherwise
RuleCall(h, self, args) ==
    IF Len(args) # Len(h[self].m_args)
    THEN Outcome(FALSE, h)
    ELSE Outcome(FALSE, h)

RECURSIVE Call(_, _, _, _)
RECURSIVE FactLoop(_, _, _, _, _)

\* the for loop of Fact::operator(): part i is called with the one-element
\* list {args[i]}; the first failure restores the recorded positions
FactLoop(h, self, args, i, ununified) ==
    IF i > Len(h[self].m_parts)
    THEN Outcome(TRUE, h)
    ELSE LET r == Call(h, h[self].m_parts[i], <<args[i]>>, "false") IN
         IF ~r.ret
         THEN Outcome(FALSE, restore_ununified(r.heap, ununified, args))
         ELSE FactLoop(r.heap, self, args, i + 1, ununified)

\* Fact::operator()(args)
FactCall(h, self, args) ==
    IF Len(args) # Len(h[self].m_parts)
    THEN Outcome(FALSE, h)
    ELSE FactLoop(h, self, args, 1, ununified_positions(h, args))

\* virtual bool operator()(std::vector<Expression*> &args), by dynamic type
Call(h, self, args, ub) ==
    CASE h[self].kind = "Fact" -> FactCall(h, self, args)
      [] h[self].kind = "Rule" -> RuleCall(h, self, args)
      [] OTHER                 -> AtomCall(h, self, args, ub)

\* ---------------------------------------------------------------- equality
RECURSIVE Equals(_, _, _)

\* Atom<T>::operator==(o)
AtomEquals(h, self, o) ==
    /\ h[o].kind = h[self].kind
    /\ \/ h[o].m_value = h[self].m_value
       \/ h[o].m_is_unified # h[self].m_is_unified

\* Fact::operator==(o)
FactEquals(h, self, o) ==
    IF h[o].kind # "Fact" THEN FALSE
    ELSE IF Len(h[o].m_parts) # Len(h[self].m_parts) THEN FALSE
    ELSE \A i \in 1..Len(h[self].m_parts) :
            Equals(h, h[self].m_parts[i], h[o].m_parts[i])

\* Rule::operator==(other): the two pointer vectors are compared
RuleEquals(h, self, other) ==
    /\ h[other].kind = "Rule"
    /\ h[other].m_args = h[self].m_args
    /\ h[other].m_predicates = h[self].m_predicates

\* virtual bool operator==(const Expression &o) const, by dynamic type
Equals(h, self, o) ==
    CASE h[self].kind = "Fact" -> FactEquals(h, self, o)
      [] h[self].kind = "Rule" -> RuleEquals(h, self, o)
      [] OTHER                 -> AtomEquals(h, self, o)

\* ------------------------------------------------------------ the Database
\* what the host passes for one argument of add_fact or add_rule: a C++ value
\* of type U, a Variable<U>{} placeholder (val is then what the new Atom's
\* uninitialized m_value happens to hold), or an Expression* it already has
ValueItem(U, v)    == [form |-> "value",    type |-> U,   val |-> v, expr |-> Null]
VariableItem(U, g) == [form |-> "Variable", type |-> U,   val |-> g, expr |-> Null]
PointerItem(e)     == [form |-> "pointer",  type |-> "A", val |-> 0, expr |-> e]

VariableItems == UNION {{VariableItem(U, g) : g \in ValuesOf(U)} : U \in Types}
FactItems     == UNION {{ValueItem(U, v) : v \in ValuesOf(U)} : U \in Types}
                 \cup VariableItems

SeqsUpTo(S, n) == UNION {[1..k -> S] : k \in 0..n}

\* m_expressions[name], or the empty list where the map has no such key
ListOf(m, name) == IF name \in DOMAIN m THEN m[name] ELSE <<>>

\* std::map::operator[]: the map after m[name] was evaluated, which holds an
\* empty list under name when the key was absent
Index(m, name) ==
    [n \in DOMAIN m \cup {name} |-> IF n \in DOMAIN m THEN m[n] ELSE <<>>]

\* m_expressions[name].push_back(e)
PushBack(m, name, e) == [Index(m, name) EXCEPT ![name] = Append(@, e)]

Db(h, atoms) == [heap |-> h, m_atoms |-> atoms]

\* an add_atom that hands the new Atom to the Fact and keeps no record of it
add_atom_unrecorded(db, item) ==
    LET new_atom == IF item.form = "Variable"
                    THEN AtomDefault(item.type, item.val)
                    ELSE AtomOfValue(item.type, item.val)
        a == NewAddr(db.heap, DbAtomAddrs)
    IN [heap    |-> Construct(db.heap, a, new_atom),
        m_atoms |-> db.m_atoms,
        so_far  |-> a]

\* the two add_atom overloads: a value becomes a unified Atom<U>, a
\* Variable<U> becomes a default-constructed one; both go into m_atoms
add_atom(db, item) ==
    LET new_atom == IF item.form = "Variable"
                    THEN AtomDefault(item.type, item.val)
                    ELSE AtomOfValue(item.type, item.val)
        a == NewAddr(db.heap, DbAtomAddrs)
    IN [heap    |-> Construct(db.heap, a, new_atom),
        m_atoms |-> Append(db.m_atoms, a),
        so_far  |-> a]

\* the two add_arg overloads: an Expression* is used as it is (and is not
\* recorded in m_atoms), a Variable<U> becomes a new default-constructed Atom
add_arg(db, item) ==
    IF item.form = "pointer"
    THEN [heap |-> db.heap, m_atoms |-> db.m_atoms, so_far |-> item.expr]
    ELSE LET a == NewAddr(db.heap, DbAtomAddrs)
         IN [heap    |-> Construct(db.heap, a, AtomDefault(item.type, item.val)),
             m_atoms |-> Append(db.m_atoms, a),
             so_far  |-> a]

\* the fold (add_atom(atoms, atoms_so_far), ...) of add_fact, left to right
RECURSIVE AddAtoms(_, _, _, _)
AddAtoms(db, items, i, so_far) ==
    IF i > Len(items) THEN [db |-> db, so_far |-> so_far]
    ELSE LET r == add_atom(db, items[i]) IN
         AddAtoms(Db(r.heap, r.m_atoms), items, i + 1, Append(so_far, r.so_far))

\* the fold (add_arg(args, args_so_far), ...) of add_rule, left to right
RECURSIVE AddArgs(_, _, _, _)
AddArgs(db, items, i, so_far) ==
    IF i > Len(items) THEN [db |-> db, so_far |-> so_far]
    ELSE LET r == add_arg(db, items[i]) IN
         AddArgs(Db(r.heap, r.m_atoms), items, i + 1, Append(so_far, r.so_far))

\* a search that keeps the last Expression of the wanted arity
find_last(h, list, n) ==
    LET match == {i \in 1..Len(list) : arity(h, list[i]) = n} IN
    IF match = {} THEN Len(list) + 1
    ELSE CHOOSE i \in match : \A j \in match : i >= j

\* std::find_if over list with the predicate expr->arity() == n: the index
\* of the first match, or Len(list) + 1 for end()
find_if(h, list, n) ==
    LET match == {i \in 1..Len(list) : arity(h, list[i]) = n} IN
    IF match = {} THEN Len(list) + 1
    ELSE CHOOSE i \in match : \A j \in match : i <= j

\* Expression* Database::get(T name, std::size_t arity): the pointer returned
\* and the map afterwards (m_expressions[name] is evaluated once find says
\* the key is there)
get(h, m, name, n) ==
    IF name \notin DOMAIN m
    THEN [ret |-> Null, m_expressions |-> m]
    ELSE LET m2    == Index(m, name)
             match == find_if(h, m2[name], n)
         IN [ret |-> IF match = Len(m2[name]) + 1 THEN Null ELSE m2[name][match],
             m_expressions |-> m2]

\* Expression* Rule::operator[](index) hands out the formal arguments
RuleArgs(h) == UNION {Range(h[e].m_args) : e \in {r \in DOMAIN h : h[r].kind = "Rule"}}

\* the objects the host has a pointer to: the Atoms it allocated itself,
\* every Fact and Rule (add_fact and add_rule return them, get finds them),
\* and the formal arguments of the Rules
HostPointers(h, atoms) ==
    (Atoms(h) \ Range(atoms)) \cup Exprs(h) \cup RuleArgs(h)

\* ------------------------------------------------------------------ state
Pre == [heap |-> heap, m_expressions |-> m_expressions, m_atoms |-> m_atoms]

\* what the host's current statement passed and what it got back
Did(op, self, args, items, name, n, ret) ==
    [op |-> op, self |-> self, args |-> args, items |-> items, name |-> name,
     n |-> n, ret |-> ret, pre |-> Pre]

Nothing ==
    [op |-> "none", self |-> Null, args |-> <<>>, items |-> <<>>, name |-> "",
     n |-> 0, ret |-> FALSE,
     pre |-> [heap |-> <<>>, m_expressions |-> <<>>, m_atoms |-> <<>>]]

Init ==
    /\ heap = <<>>
    /\ m_expressions = <<>>
    /\ m_atoms = <<>>
    /\ crashed = FALSE
    /\ last = Nothing

\* the host is between two statements and the process is alive
Ready == ~crashed /\ last.op = "none"

NumHostAtoms == Cardinality(DOMAIN heap \cap HostAtomAddrs)
NumDbAtoms   == Cardinality(DOMAIN heap \cap DbAtomAddrs)
NumExprs == Cardinality(Exprs(heap))
NumRules == Cardinality({e \in DOMAIN heap : heap[e].kind = "Rule"})
NewAtomsOf(items) == Cardinality({i \in DOMAIN items : items[i].form # "pointer"})

\* the host allocates an Atom of its own: new Atom<U>(v) or new Atom<U>
NewAtom(U, v, unified) ==
    /\ Ready
    /\ NumHostAtoms < MaxHostAtoms
    /\ LET a == NewAddr(heap, HostAtomAddrs) IN
          /\ heap' = Construct(heap, a, IF unified THEN AtomOfValue(U, v)
                                                   ELSE AtomDefault(U, v))
          /\ last' = Did("Atom", a, <<>>, <<>>, "", 0, TRUE)
    /\ UNCHANGED <<m_expressions, m_atoms, crashed>>

\* the host allocates a Fact of its own: new Fact(parts)
NewFact(parts) ==
    /\ Ready
    /\ NumExprs < MaxExprs
    /\ Range(parts) \subseteq HostPointers(heap, m_atoms)
    /\ LET a == NewAddr(heap, ExprAddrs) IN
          /\ heap' = Construct(heap, a, FactOf(parts))
          /\ last' = Did("Fact", a, parts, <<>>, "", 0, TRUE)
    /\ UNCHANGED <<m_expressions, m_atoms, crashed>>

\* Fact& Database::add_fact(T name, Args... atoms)
AddFact(name, items) ==
    /\ Ready
    /\ NumExprs < MaxExprs
    /\ NumDbAtoms + Len(items) <= MaxDbAtoms
    /\ LET r        == AddAtoms(Db(heap, m_atoms), items, 1, <<>>)
           new_fact == NewAddr(r.db.heap, ExprAddrs)
       IN /\ heap' = Construct(r.db.heap, new_fact, FactOf(r.so_far))
          /\ m_atoms' = r.db.m_atoms
          /\ m_expressions' = PushBack(m_expressions, name, new_fact)
          /\ last' = Did("add_fact", new_fact, <<>>, items, name, Len(items), TRUE)
    /\ UNCHANGED crashed

\* Rule& Database::add_rule(T name, Args... args)
AddRule(name, items) ==
    /\ Ready
    /\ NumExprs < MaxExprs
    /\ NumDbAtoms + NewAtomsOf(items) <= MaxDbAtoms
    /\ \A i \in DOMAIN items :
          /\ items[i].form # "value"
          /\ items[i].form = "pointer" => items[i].expr \in HostPointers(heap, m_atoms)
    /\ LET r        == AddArgs(Db(heap, m_atoms), items, 1, <<>>)
           new_rule == NewAddr(r.db.heap, ExprAddrs)
       IN /\ heap' = Construct(r.db.heap, new_rule, RuleOf(r.so_far))
          /\ m_atoms' = r.db.m_atoms
          /\ m_expressions' = PushBack(m_expressions, name, new_rule)
          /\ last' = Did("add_rule", new_rule, <<>>, items, name, Len(items), TRUE)
    /\ UNCHANGED crashed

\* Rule& Rule::operator<<(Expression *part), also reached through operator,
AppendPredicate(rule, part) ==
    /\ Ready
    /\ heap[rule].kind = "Rule"
    /\ part \in HostPointers(heap, m_atoms)
    /\ Len(heap[rule].m_predicates) < MaxPreds
    /\ heap' = [heap EXCEPT ![rule].m_predicates = Append(@, part)]
    /\ last' = Did("<<", rule, <<part>>, <<>>, "", 0, TRUE)
    /\ UNCHANGED <<m_expressions, m_atoms, crashed>>

\* the host calls (*self)(args) on an Expression it has a pointer to; ub is
\* what the build makes of the undefined read of Atom::operator() (see AtomCall)
Unify(self, args, ub) ==
    /\ Ready
    /\ self \in HostPointers(heap, m_atoms)
    /\ Range(args) \subseteq HostPointers(heap, m_atoms)
    /\ (ub = "crash") => (IsAtom(heap, self) /\ Len(args) = 0)
    /\ LET r == Call(heap, self, args, ub) IN
          /\ heap' = r.heap
          /\ crashed' = r.crash
          /\ last' = Did("()", self, args, <<>>, "", 0, r.ret)
    /\ UNCHANGED <<m_expressions, m_atoms>>

\* the host evaluates *self == *o
Compare(self, o) ==
    /\ Ready
    /\ {self, o} \subseteq HostPointers(heap, m_atoms)
    /\ last' = Did("==", self, <<o>>, <<>>, "", 0, Equals(heap, self, o))
    /\ UNCHANGED <<heap, m_expressions, m_atoms, crashed>>

\* the host calls db.get(name, n)
Get(name, n) ==
    /\ Ready
    /\ LET r == get(heap, m_expressions, name, n) IN
          /\ m_expressions' = r.m_expressions
          /\ last' = Did("get", r.ret, <<>>, <<>>, name, n, r.ret # Null)
    /\ UNCHANGED <<heap, m_atoms, crashed>>

\* the lookup-and-unify the library offers in place of the commented-out
\* Database::query: the host calls db.get(name, args.size()) and, when that is
\* not nullptr, calls the returned Expression with args
Query(name, args) ==
    /\ Ready
    /\ Range(args) \subseteq HostPointers(heap, m_atoms)
    /\ LET g == get(heap, m_expressions, name, Len(args)) IN
          /\ m_expressions' = g.m_expressions
          /\ IF g.ret = Null
             THEN /\ heap' = heap
                  /\ last' = Did("query", Null, args, <<>>, name, Len(args), FALSE)
             ELSE LET r == Call(heap, g.ret, args, "false") IN
                  /\ heap' = r.heap
                  /\ last' = Did("query", g.ret, args, <<>>, name, Len(args), r.ret)
    /\ UNCHANGED <<m_atoms, crashed>>

\* the host's statement ends: the argument vector and the returned value go
\* out of scope (a process ended by undefined behaviour stays as it is)
Discard ==
    /\ ~crashed
    /\ last.op # "none"
    /\ last' = Nothing
    /\ UNCHANGED <<heap, m_expressions, m_atoms, crashed>>

RuleItems == VariableItems \cup {PointerItem(e) : e \in DOMAIN heap}
ArgLists  == SeqsUpTo(DOMAIN heap, MaxArity)

\* ---------------------------------------------------------- specifications
\* SpecUnify: the host has Atoms of its own and one Fact, made by add_fact or
\* by new Fact, and calls and compares what it has
NextUnify ==
    \/ \E U \in Types, b \in BOOLEAN : \E v \in ValuesOf(U) : NewAtom(U, v, b)
    \/ \E parts \in ArgLists : NumExprs < UnifyMaxExprs /\ NewFact(parts)
    \/ \E items \in SeqsUpTo(FactItems, MaxArity) :
          NumExprs < UnifyMaxExprs /\ AddFact("p", items)
    \/ \E self \in DOMAIN heap, args \in ArgLists, ub \in {"false", "crash"} :
          Unify(self, args, ub)
    \/ Discard

SpecUnify == Init /\ [][NextUnify]_vars

\* SpecDatabase: the host fills the Database with Facts and Rules, gives the
\* Rules predicates and looks Expressions up
NextDatabase ==
    \/ \E name \in Names, items \in SeqsUpTo(FactItems, MaxArity) : AddFact(name, items)
    \/ \E name \in Names, items \in SeqsUpTo(RuleItems, MaxArity) : AddRule(name, items)
    \/ \E rule \in DOMAIN heap, part \in DOMAIN heap : AppendPredicate(rule, part)
    \/ \E name \in Names, n \in 0..MaxArity : Get(name, n)
    \/ Discard

SpecDatabase == Init /\ [][NextDatabase]_vars

\* SpecQuery: the host fills the Database with Facts, queries it with
\* argument lists over one Atom of its own and the Facts, and compares
NextQuery ==
    \/ \E U \in Types, b \in BOOLEAN : \E v \in ValuesOf(U) :
          NumHostAtoms < QueryMaxHostAtoms /\ NewAtom(U, v, b)
    \/ \E name \in Names, items \in SeqsUpTo(FactItems, MaxArity) : AddFact(name, items)
    \/ \E name \in Names, args \in ArgLists : Query(name, args)
    \/ \E self \in DOMAIN heap, o \in DOMAIN heap : Compare(self, o)
    \/ Discard

SpecQuery == Init /\ [][NextQuery]_vars

\* SpecRule: the host registers Facts under "p" and Rules under "q", gives
\* the Rules predicates and calls the Rules with argument lists over one Atom
\* of its own, the formal arguments and the Expressions
NextRule ==
    \/ \E U \in Types, b \in BOOLEAN : \E v \in ValuesOf(U) :
          NumHostAtoms < RuleMaxHostAtoms /\ NewAtom(U, v, b)
    \/ \E items \in SeqsUpTo(FactItems, MaxArity) :
          NumDbAtoms + Len(items) <= RuleMaxDbAtoms /\ AddFact("p", items)
    \/ \E items \in SeqsUpTo(RuleItems, MaxArity) :
          /\ NumDbAtoms + NewAtomsOf(items) <= RuleMaxDbAtoms
          /\ NumRules < RuleMaxRules
          /\ AddRule("q", items)
    \/ \E rule \in DOMAIN heap, part \in DOMAIN heap : AppendPredicate(rule, part)
    \/ \E self \in DOMAIN heap, args \in ArgLists :
          heap[self].kind = "Rule" /\ Unify(self, args, "false")
    \/ Discard

SpecRule == Init /\ [][NextRule]_vars

\* ------------------------------------------------------------- properties
PreHeap == last.pre.heap
PreMap  == last.pre.m_expressions

\* the host's statement was a call of an Expression of the given dynamic type
Called(kind) == last.op = "()" /\ PreHeap[last.self].kind = kind

CalledAtom == last.op = "()" /\ IsAtom(PreHeap, last.self)

\* the argument list of the call had as many elements as the Fact has parts
SameArity == Len(last.args) = Len(PreHeap[last.self].m_parts)

PartOf(i) == PreHeap[last.self].m_parts[i]

\* C1: a call of a Fact with as many arguments as it has parts that returns
\* false leaves every argument as unified or ununified as it was before the
\* call, also when earlier positions had unified their argument
C1_FailedFactCallKeepsStatus ==
    (Called("Fact") /\ SameArity /\ ~last.ret)
    => \A i \in DOMAIN last.args :
          is_unified(heap, last.args[i]) = is_unified(PreHeap, last.args[i])

\* a failed Fact call in which an earlier position had written its value into
\* an ununified argument before a later position failed
C1_Witness ==
    /\ Called("Fact") /\ SameArity /\ ~last.ret
    /\ \E i \in DOMAIN last.args :
          /\ IsAtom(heap, last.args[i])
          /\ ~is_unified(PreHeap, last.args[i])
          /\ ~is_unified(heap, last.args[i])
          /\ value(heap, last.args[i]) # value(PreHeap, last.args[i])

\* the Fact called has only unified Atoms as parts, the arguments are as many
\* as the parts and of the parts' types, and every argument that is already
\* unified holds the value of its part
C2_Matching ==
    /\ Called("Fact") /\ SameArity
    /\ \A i \in DOMAIN last.args :
          /\ IsAtom(PreHeap, PartOf(i))
          /\ is_unified(PreHeap, PartOf(i))
          /\ PreHeap[last.args[i]].kind = PreHeap[PartOf(i)].kind
          /\ is_unified(PreHeap, last.args[i])
                => value(PreHeap, last.args[i]) = value(PreHeap, PartOf(i))

\* the call returned true, and every argument is unified and holds the value
\* of its part; the arguments that were unified before are as they were
C2_Delivered ==
    /\ last.ret
    /\ \A i \in DOMAIN last.args :
          /\ is_unified(heap, last.args[i])
          /\ value(heap, last.args[i]) = value(PreHeap, PartOf(i))
          /\ is_unified(PreHeap, last.args[i])
                => heap[last.args[i]] = PreHeap[last.args[i]]

\* an Atom that stands at several positions of the argument list meets the
\* same value at each of them
C2_RepeatsAgree ==
    \A i, j \in DOMAIN last.args :
        last.args[i] = last.args[j]
            => value(PreHeap, PartOf(i)) = value(PreHeap, PartOf(j))

\* C2 as claimed: a Fact of unified Atoms called with matching arguments
\* returns true and leaves every argument unified with its part's value
C2_AsClaimed == C2_Matching => C2_Delivered

\* C2, amended: a Fact of unified Atoms called with matching arguments, in
\* which an Atom that is passed at several positions meets equal part values
\* there, returns true and leaves every argument unified with its part's value
C2_MatchingFactCallDelivers == (C2_Matching /\ C2_RepeatsAgree) => C2_Delivered

\* a successful call of a two-part Fact that unified one argument and found
\* the other one unified with the right value
C2_Witness ==
    /\ C2_Matching /\ C2_RepeatsAgree /\ last.ret
    /\ \E i, j \in DOMAIN last.args :
          /\ ~is_unified(PreHeap, last.args[i])
          /\ is_unified(PreHeap, last.args[j])

\* C3: a call of a Fact that returns false leaves every argument with the
\* stored value and the unified flag it had before the call
C3_FailedFactCallKeepsValues ==
    (Called("Fact") /\ ~last.ret)
    => \A i \in DOMAIN last.args :
          /\ is_unified(heap, last.args[i]) = is_unified(PreHeap, last.args[i])
          /\ value(heap, last.args[i]) = value(PreHeap, last.args[i])

\* the formal arguments of the Rule called unify with the caller's arguments
\* the way the parts of a Fact do
C4_FormalsUnify ==
    FactCall(Construct(PreHeap, Null, FactOf(PreHeap[last.self].m_args)),
             Null, last.args).ret

\* every predicate of the Rule called holds as it stands: it is a Fact that
\* is registered in the Database and has only unified Atoms as parts, so that
\* unifying it with its own parts succeeds and binds nothing
C4_BodyHolds ==
    \A k \in DOMAIN PreHeap[last.self].m_predicates :
        LET part == PreHeap[last.self].m_predicates[k] IN
        /\ PreHeap[part].kind = "Fact"
        /\ \E name \in DOMAIN PreMap : part \in Range(PreMap[name])
        /\ \A i \in DOMAIN PreHeap[part].m_parts :
              /\ IsAtom(PreHeap, PreHeap[part].m_parts[i])
              /\ is_unified(PreHeap, PreHeap[part].m_parts[i])
        /\ Call(PreHeap, part, PreHeap[part].m_parts, "false") = Outcome(TRUE, PreHeap)

\* C4: a Rule called with as many arguments as it has formal arguments
\* returns true when the formal arguments unify with the caller's arguments
\* and every predicate of its body holds
C4_RuleSucceedsWhenBodyHolds ==
    (/\ Called("Rule")
     /\ Len(last.args) = Len(PreHeap[last.self].m_args)
     /\ C4_FormalsUnify
     /\ C4_BodyHolds)
    => last.ret

\* C5: a call with an argument list whose length is not the Expression's
\* arity returns false and changes no object
C5_ArityGating ==
    (last.op = "()" /\ Len(last.args) # arity(PreHeap, last.self))
    => ~last.ret /\ ~crashed /\ heap = PreHeap

\* two Atoms hold the same value of the same type
SameValue(h, a, b) == h[a].kind = h[b].kind /\ h[a].m_value = h[b].m_value

\* C6: an Atom called with one Atom that is already unified returns true
\* exactly when the argument holds the Atom's value, and changes no object
C6_GroundAtomCall ==
    (/\ CalledAtom
     /\ Len(last.args) = 1
     /\ IsAtom(PreHeap, last.args[1])
     /\ is_unified(PreHeap, last.args[1]))
    => /\ last.ret = SameValue(PreHeap, last.args[1], last.self)
       /\ heap = PreHeap

\* an Atom called with a unified Atom of its type that holds another value
C6_Witness ==
    /\ CalledAtom
    /\ Len(last.args) = 1
    /\ IsAtom(PreHeap, last.args[1])
    /\ is_unified(PreHeap, last.args[1])
    /\ PreHeap[last.args[1]].kind = PreHeap[last.self].kind
    /\ last.args[1] # last.self
    /\ ~last.ret

\* the Expressions registered under last.name whose arity is last.n
C7_Matches == {e \in Range(ListOf(PreMap, last.name)) : arity(PreHeap, e) = last.n}

\* C7: get(name, arity) returns nullptr when no Expression of that arity is
\* registered under name (in particular when name is no key of the map) and
\* otherwise the one registered first (new Facts and Rules get increasing
\* addresses, so that is the match at the lowest address), and it changes
\* no object, no list and no key of the map
C7_GetIsFirstMatch ==
    (last.op = "get")
    => /\ (C7_Matches = {}) => (last.self = Null /\ ~last.ret)
       /\ (C7_Matches # {}) => /\ last.self \in C7_Matches
                               /\ \A e \in C7_Matches : last.self <= e
       /\ heap = PreHeap
       /\ m_expressions = PreMap
       /\ m_atoms = last.pre.m_atoms

\* a get that returned an Expression although a later one of the same arity
\* is registered under the same name
C7_Witness ==
    /\ last.op = "get"
    /\ last.self # Null
    /\ \E e \in C7_Matches : e > last.self

\* the parts of two Atoms can be unified: they are of one type and either one
\* of them is ununified or they hold the same value
C8_Unifiable(h, a, b) ==
    /\ h[a].kind = h[b].kind
    /\ (~h[a].m_is_unified \/ ~h[b].m_is_unified \/ h[a].m_value = h[b].m_value)

\* C8: two Facts compare equal exactly when they have the same number of
\* parts and the parts at every position can be unified
C8_FactEqualityIsUnifiability ==
    (/\ last.op = "=="
     /\ heap[last.self].kind = "Fact"
     /\ heap[last.args[1]].kind = "Fact"
     /\ \A e \in {last.self, last.args[1]} :
           \A i \in DOMAIN heap[e].m_parts : IsAtom(heap, heap[e].m_parts[i]))
    => last.ret =
          (/\ Len(heap[last.self].m_parts) = Len(heap[last.args[1]].m_parts)
           /\ \A i \in DOMAIN heap[last.self].m_parts :
                 C8_Unifiable(heap, heap[last.self].m_parts[i],
                                    heap[last.args[1]].m_parts[i]))

\* the clauses a query has to consider: the positions of the list under
\* last.name whose Expression has as many parts as the query has arguments
C9_Clauses ==
    {k \in DOMAIN ListOf(PreMap, last.name) :
        arity(PreHeap, ListOf(PreMap, last.name)[k]) = Len(last.args)}

C9_Try(k) == Call(PreHeap, ListOf(PreMap, last.name)[k], last.args, "false")

C9_Succeeding == {k \in C9_Clauses : C9_Try(k).ret}

\* C9: a query returns true with the bindings of the first clause of matching
\* arity, in the order of registration, whose unification succeeds, and
\* returns false only when none succeeds, every argument then being as
\* unified as before
C9_QueryTriesEveryClause ==
    (last.op = "query")
    => IF C9_Succeeding = {}
       THEN /\ ~last.ret
            /\ \A i \in DOMAIN last.args :
                  is_unified(heap, last.args[i]) = is_unified(PreHeap, last.args[i])
       ELSE /\ last.ret
            /\ heap = C9_Try(CHOOSE k \in C9_Succeeding :
                                \A j \in C9_Succeeding : k <= j).heap

\* what add_fact was given at position i is a value, not a Variable<U>{}
C10_IsValue(i) == last.items[i].form = "value"

\* the Fact add_fact made is the last one of name's list, has as many parts as
\* add_fact was given arguments, and its parts are distinct Atoms of the
\* arguments' types that did not exist before and are recorded in m_atoms
C10_NewParts ==
    LET parts == heap[last.self].m_parts IN
    /\ heap[last.self].kind = "Fact"
    /\ last.self \notin DOMAIN PreHeap
    /\ m_expressions[last.name] = Append(ListOf(PreMap, last.name), last.self)
    /\ Len(parts) = Len(last.items)
    /\ \A i \in DOMAIN parts :
          /\ heap[parts[i]].kind = AtomKind(last.items[i].type)
          /\ parts[i] \notin DOMAIN PreHeap
          /\ parts[i] \in Range(m_atoms)
          /\ \A j \in DOMAIN parts : parts[i] = parts[j] => i = j

\* C10 as claimed: every part of the Fact made by add_fact is a new recorded
\* Atom that is unified and holds the argument given at its position
C10_AsClaimed ==
    (last.op = "add_fact")
    => /\ C10_NewParts
       /\ \A i \in DOMAIN last.items :
             /\ is_unified(heap, heap[last.self].m_parts[i])
             /\ value(heap, heap[last.self].m_parts[i]) = last.items[i].val

\* C10, amended: every part of the Fact made by add_fact is a new recorded
\* Atom; it is unified and holds the argument where a value was given, and it
\* is ununified where a Variable<U>{} was given
C10_AddFactParts ==
    (last.op = "add_fact")
    => /\ C10_NewParts
       /\ \A i \in DOMAIN last.items :
             /\ is_unified(heap, heap[last.self].m_parts[i]) = C10_IsValue(i)
             /\ C10_IsValue(i)
                   => value(heap, heap[last.self].m_parts[i]) = last.items[i].val

\* an add_fact that was given a value and a Variable<U>{}
C10_Witness ==
    /\ last.op = "add_fact"
    /\ \E i, j \in DOMAIN last.items : C10_IsValue(i) /\ ~C10_IsValue(j)

\* the Facts and Rules registered under some name of the map
C11_Stored == UNION {Range(m_expressions[name]) : name \in DOMAIN m_expressions}

\* the Atoms that are a part of a registered Fact or a formal argument of a
\* registered Rule
C11_StoredTerms ==
    {a \in Atoms(heap) :
        \E e \in C11_Stored : a \in Range(heap[e].m_parts) \cup Range(heap[e].m_args)}

\* C11: every Atom that is a part of a registered Fact or a formal argument
\* of a registered Rule is recorded in m_atoms, and every Fact and Rule that
\* add_fact or add_rule made is registered under a name
C11_StoredTermsAreOwned ==
    /\ C11_StoredTerms \subseteq Range(m_atoms)
    /\ Exprs(heap) \subseteq C11_Stored

\* C12: a call of a Rule that returns false leaves every Atom (the caller's
\* arguments, the formal arguments, the parts of the predicates) as unified
\* or ununified as it was before the call
C12_FailedRuleCallKeepsStatus ==
    (Called("Rule") /\ ~last.ret)
    => \A a \in Atoms(heap) : is_unified(heap, a) = is_unified(PreHeap, a)

\* a Rule that has a predicate was called with as many arguments as it has
\* formal arguments, one of them an ununified Atom, and returned false
C12_Witness ==
    /\ Called("Rule") /\ ~last.ret
    /\ Len(last.args) = Len(PreHeap[last.self].m_args)
    /\ PreHeap[last.self].m_predicates # <<>>
    /\ \E i \in DOMAIN last.args :
          /\ IsAtom(PreHeap, last.args[i])
          /\ ~is_unified(PreHeap, last.args[i])
          /\ ~is_unified(heap, last.args[i])

\* the objects as the host finds them when it asks the same query once more:
\* as the query left them, every argument as unified or ununified as it was
\* before the query (an ununified Atom holds no value the host may rely on)
C13_Before ==
    [a \in DOMAIN heap |->
        IF a \in Range(last.args) /\ IsAtom(heap, a)
        THEN [heap[a] EXCEPT !.m_is_unified = PreHeap[a].m_is_unified]
        ELSE heap[a]]

\* the same lookup-and-unify, run on C13_Before and the map as it is now
C13_Again ==
    LET g == get(C13_Before, m_expressions, last.name, Len(last.args)) IN
    IF g.ret = Null
    THEN [self |-> Null, ret |-> FALSE, heap |-> C13_Before,
          m_expressions |-> g.m_expressions]
    ELSE LET r == Call(C13_Before, g.ret, last.args, "false") IN
         [self |-> g.ret, ret |-> r.ret, heap |-> r.heap,
          m_expressions |-> g.m_expressions]

\* C13: the same lookup-and-unify, asked again with the arguments unified or
\* ununified as they were the first time, finds the same Expression, returns
\* the same boolean and leaves every object, the arguments included, as the
\* first one left it; neither of the two changes the map
C13_RepeatedQueryAgrees ==
    (last.op = "query")
    => /\ m_expressions = PreMap
       /\ C13_Again.self = last.self
       /\ C13_Again.ret = last.ret
       /\ C13_Again.heap = heap
       /\ C13_Again.m_expressions = m_expressions

\* a query that found a Fact and returned false after it had written a value
\* into an ununified argument, which the second query finds in that argument
C13_Witness ==
    /\ last.op = "query" /\ last.self # Null /\ ~last.ret
    /\ \E i \in DOMAIN last.args :
          /\ IsAtom(heap, last.args[i])
          /\ ~is_unified(heap, last.args[i])
          /\ value(heap, last.args[i]) # value(PreHeap, last.args[i])

\* the Atoms the host's statement turned from ununified to unified
C14_NewlyBound ==
    {a \in Atoms(PreHeap) : ~is_unified(PreHeap, a) /\ is_unified(heap, a)}

\* C14: an Atom that a call turns unified holds a value that a unified Atom
\* of its type held before the call (unified Atoms are made by add_fact and
\* by new Atom<U>(v) with a value of the host and never lose it, so these are
\* the values the host supplied); no Atom becomes unified with the content of
\* an ununified one
C14_BoundImpliesValued ==
    (last.op = "()")
    => \A a \in C14_NewlyBound :
          \E b \in Atoms(PreHeap) :
              /\ is_unified(PreHeap, b)
              /\ SameValue(heap, a, b)

\* the positions of the argument list that hold the Atom x
C15_PositionsOf(x) == {i \in DOMAIN last.args : last.args[i] = x}

\* a Fact whose parts are Atoms was called with as many arguments as it has
\* parts; the ununified Atom x stands at two positions or more, and every
\* other position holds a unified Atom with the type and value of its part
C15_Repeated(x) ==
    /\ Called("Fact") /\ SameArity
    /\ IsAtom(PreHeap, x) /\ ~is_unified(PreHeap, x)
    /\ Cardinality(C15_PositionsOf(x)) >= 2
    /\ \A i \in DOMAIN last.args : IsAtom(PreHeap, PartOf(i))
    /\ \A i \in DOMAIN last.args \ C15_PositionsOf(x) :
          /\ IsAtom(PreHeap, last.args[i])
          /\ is_unified(PreHeap, last.args[i])
          /\ SameValue(PreHeap, last.args[i], PartOf(i))

\* the parts at the positions of x hold one value of the type of x
C15_PartsAgree(x) ==
    \A i, j \in C15_PositionsOf(x) :
        /\ PreHeap[PartOf(i)].kind = PreHeap[x].kind
        /\ SameValue(PreHeap, PartOf(i), PartOf(j))

\* what the claim says of the call for the repeated Atom x
C15_Outcome(x) ==
    /\ last.ret = C15_PartsAgree(x)
    /\ last.ret => /\ is_unified(heap, x)
                   /\ \A i \in C15_PositionsOf(x) :
                         value(heap, x) = value(PreHeap, PartOf(i))
    /\ ~last.ret => ~is_unified(heap, x)

\* x is none of the parts of the Fact called
C15_Apart(x) == x \notin Range(PreHeap[last.self].m_parts)

\* C15 as claimed: a Fact called with one ununified Atom at two positions
\* returns true exactly when its parts at these positions hold equal values;
\* the Atom is then unified and holds that value, and after a false it is
\* ununified again
C15_AsClaimed ==
    \A x \in DOMAIN PreHeap : C15_Repeated(x) => C15_Outcome(x)

\* C15, amended: a Fact called with one ununified Atom, which is none of its
\* parts, at two positions returns true exactly when its parts at these
\* positions hold equal values; the Atom is then unified and holds that
\* value, and after a false it is ununified again
C15_RepeatedVariable ==
    \A x \in DOMAIN PreHeap : (C15_Repeated(x) /\ C15_Apart(x)) => C15_Outcome(x)

\* a call that unified the repeated Atom at its first position, failed at the
\* second one and returned false
C15_Witness ==
    \E x \in DOMAIN PreHeap :
        /\ C15_Repeated(x) /\ C15_Apart(x)
        /\ ~last.ret
        /\ \A i \in C15_PositionsOf(x) : PreHeap[PartOf(i)].kind = PreHeap[x].kind
        /\ value(heap, x) # value(PreHeap, x)

\* no argument of the call is a part of the Fact called
C16_ArgsApart == Range(last.args) \cap Range(PreHeap[last.self].m_parts) = {}

\* C16: a call of a Fact with arguments that are none of its parts, whatever
\* it returns, changes no object that is not an element of the argument
\* list: the parts of the Fact keep flag and value, and so does every other
\* Atom of the Database
C16_FactCallFrame ==
    (Called("Fact") /\ C16_ArgsApart)
    => /\ DOMAIN heap = DOMAIN PreHeap
       /\ \A a \in DOMAIN heap \ Range(last.args) : heap[a] = PreHeap[a]
       /\ m_atoms = last.pre.m_atoms
       /\ m_expressions = PreMap

\* a call of a Fact that has an ununified part unified an argument that is
\* none of the parts
C16_Witness ==
    /\ Called("Fact") /\ C16_ArgsApart /\ last.ret
    /\ \E i \in DOMAIN last.args :
          /\ ~is_unified(PreHeap, PartOf(i))
          /\ ~is_unified(PreHeap, last.args[i])
          /\ is_unified(heap, last.args[i])

====
